---- MODULE Spec2Model ----
(***************************************************************************)
(* Verification model of SudokuSpeed.cpp ("Somewhat Square Sudoku").       *)
(*                                                                         *)
(* Five specifications share this module:                                  *)
(*   Spec        the divisor search loop of main, the backtracking solver  *)
(*               solveFixed and the progress thread;                       *)
(*   SpecOrder   the same, with the row-visitation order drawn from        *)
(*               RowOrders instead of the fixed literal;                   *)
(*   SpecGen     the sharded permutation generator of main (STEP 1);       *)
(*   SpecFilter  the pure function filterDivisibleByCandidate;             *)
(*   SpecConfig  the divisor loop on the row lists that the row builder    *)
(*               (STEP 2) makes of validNumbers.                           *)
(*                                                                         *)
(* The divisor enumeration 12345678 down to 337 is scaled to MaxGCD down   *)
(* to MinGCD, and the base puzzle is drawn from the rows of a few grids    *)
(* whose rows share divisors of that range; the generator's alphabet       *)
(* '0'..'9' is scaled to NumDigits digits.  Everything else (grid size,    *)
(* box size, row order, masks, tie-break) is as in the source.             *)
(*                                                                         *)
(* Strings are sequences of character codes ('0' = 48), digit vectors are  *)
(* sequences of 0..9; c - '0' is modelled as the subtraction it is.        *)
(* Rows, columns and boxes keep the 0-based indices of the source.         *)
(***************************************************************************)
EXTENDS Integers, Sequences, FiniteSets, TLC

\* ------------------------------------------------------------------------
\* Bounds of the model
\* ------------------------------------------------------------------------
\* Upper end of the divisor enumeration (12345678 in the source).
MaxGCD == 40
\* Lower end of the divisor enumeration (337 in the source).
MinGCD == 3
\* Alphabet size of the generator model (10 in the source: '0'..'9').
NumDigits == 5
\* Largest value thread::hardware_concurrency() reports in the generator model.
MaxHardware == 4
\* Longest option list handed to filterDivisibleByCandidate in SpecFilter.
MaxOptions == 2

\* ------------------------------------------------------------------------
\* Program constants
\* ------------------------------------------------------------------------
Zero == 48                      \* the character '0'
GridSize == 9
BoxSize == 3
IntMax == 2147483647
HalfWord == 65536               \* 2^16: an unsigned int is two 16-bit halves

Rows == 0 .. (GridSize - 1)
Cols == 0 .. (GridSize - 1)

\* validNumbersMutex when nobody holds it
NoOwner == 0

\* ------------------------------------------------------------------------
\* Bit operations on int masks
\* ------------------------------------------------------------------------
Shl1(d) == 2 ^ d                                  \* 1 << d
TestBit(mask, d) == (mask \div Shl1(d)) % 2 = 1   \* (mask & (1 << d)) != 0
OrBit(mask, d) == IF TestBit(mask, d) THEN mask ELSE mask + Shl1(d)

\* c - '0'
DigitOf(c) == c - Zero

\* A string literal given by its digits.
Str(ds) == [i \in 1 .. Len(ds) |-> Zero + ds[i]]

GridA ==
  <<
     Str(<<3,9,5,0,6,1,7,2,8>>),
     Str(<<0,6,1,7,2,8,3,9,5>>),
     Str(<<7,2,8,3,9,5,0,6,1>>),
     Str(<<9,5,0,6,1,7,2,8,3>>),
     Str(<<2,8,3,9,5,0,6,1,7>>),
     Str(<<6,1,7,2,8,3,9,5,0>>),
     Str(<<5,0,6,1,7,2,8,3,9>>),
     Str(<<1,7,2,8,3,9,5,0,6>>),
     Str(<<8,3,9,5,0,6,1,7,2>>)
  >>

GridN ==
  <<
     Str(<<1,6,7,4,0,8,3,2,5>>),
     Str(<<4,0,8,3,2,5,1,6,7>>),
     Str(<<3,2,5,1,6,7,4,0,8>>),
     Str(<<6,7,4,0,8,3,2,5,1>>),
     Str(<<0,8,3,2,5,1,6,7,4>>),
     Str(<<2,5,1,6,7,4,0,8,3>>),
     Str(<<7,4,0,8,3,2,5,1,6>>),
     Str(<<8,3,2,5,1,6,7,4,0>>),
     Str(<<5,1,6,7,4,0,8,3,2>>)
  >>

GridZ ==
  <<
     Str(<<2,3,6,8,9,7,5,1,4>>),
     Str(<<8,9,7,5,1,4,2,3,6>>),
     Str(<<5,1,4,2,3,6,8,9,7>>),
     Str(<<3,6,8,9,7,5,1,4,2>>),
     Str(<<9,7,5,1,4,2,3,6,8>>),
     Str(<<1,4,2,3,6,8,9,7,5>>),
     Str(<<6,8,9,7,5,1,4,2,3>>),
     Str(<<7,5,1,4,2,3,6,8,9>>),
     Str(<<4,2,3,6,8,9,7,5,1>>)
  >>

\* ------------------------------------------------------------------------
\* Inputs of the divisor loop: the base puzzle (row candidate lists)
\* ------------------------------------------------------------------------
\* solveFixed takes whatever candidate lists the filters leave: lists of
\* strings of nine distinct digits.  The base lists are built here from
\* the rows of the grids below.
\* GridA is made of the rows of the puzzle's solution (every row a multiple
\* of 37); GridN uses the digits 0..8 (every row a multiple of 9); GridZ uses
\* the digits 1..9 (every row a multiple of 27) and holds no zero at all.
SwapRows(g, i, j) ==
  [k \in 1 .. Len(g) |-> IF k = i THEN g[j] ELSE IF k = j THEN g[i] ELSE g[k]]

ReplaceDigit(s, old, new) ==
  [i \in 1 .. Len(s) |-> IF s[i] = Zero + old THEN Zero + new ELSE s[i]]

\* GridN with its first two rows exchanged: a second valid grid.
GridS == SwapRows(GridN, 1, 2)
\* GridN with rows 0 and 3 exchanged: columns stay valid, boxes do not.
GridX == SwapRows(GridN, 1, 4)
\* GridN with the 3 of row 4 replaced by 9: row 4 lacks the digit 3, the
\* other rows lack the digit 9; every row is a multiple of 3.
GridM == [k \in 1 .. 9 |-> IF k = 5 THEN ReplaceDigit(GridN[k], 3, 9) ELSE GridN[k]]

PoolIds == <<"A", "N", "S", "X", "M", "Z">>

PoolGrid(id) ==
  CASE id = "A" -> GridA
    [] id = "N" -> GridN
    [] id = "S" -> GridS
    [] id = "X" -> GridX
    [] id = "M" -> GridM
    [] id = "Z" -> GridZ

InSeq(x, s) == \E i \in 1 .. Len(s) : s[i] = x

RECURSIVE RowPool(_, _, _)
\* Row r's candidate list: row r of every chosen grid, in pool order, each
\* string once.
RowPool(chosen, r, k) ==
  IF k = 0 THEN <<>>
  ELSE LET before == RowPool(chosen, r, k - 1)
           s == PoolGrid(PoolIds[k])[r + 1]
       IN IF PoolIds[k] \in chosen /\ ~InSeq(s, before)
          THEN Append(before, s) ELSE before

BasePuzzles ==
  { [r \in Rows |-> RowPool(chosen, r, Len(PoolIds))] :
      chosen \in (SUBSET {PoolIds[k] : k \in 1 .. Len(PoolIds)}) \ {{}} }

\* ------------------------------------------------------------------------
\* State
\* ------------------------------------------------------------------------
VARIABLES
  \* --- main: divisor loop ---
  basePuzzle,      \* vector<vector<string>> basePuzzle
  rowOrder,        \* vector<int> rowOrder
  pcMain,          \* position of the main thread
  gcdPos,          \* position of the range-for over candidateGCDs (1-based)
  found,           \* the divisor printed by "Found solution with GCD", or 0
  \* --- one solver invocation ---
  candidates,      \* vector<vector<vector<int>>> candidates
  colMask,         \* array<int, 9> colMask
  boxMask,         \* array<int, 9> boxMask
  solution,        \* vector<vector<int>> solution
  allSolutions,    \* vector<vector<vector<int>>> allSolutions
  candidateTries,  \* unsigned long long candidateTries
  stack,           \* call stack of solveFixed: one frame per active call
  \* --- progress thread ---
  solverRunning,   \* bool solverRunning
  pcProg,          \* position of the progress thread
  lastProgress,    \* the last "Progress update" line printed, with main's position then
  \* --- generator (STEP 1) ---
  hardware,        \* thread::hardware_concurrency()
  numThreads,      \* unsigned int numThreads
  skipDigit,       \* loop variable of the shard loop (a character code)
  threads,         \* vector<thread> threads (each named by its skipDigit)
  pcGen,           \* position of the main thread in STEP 1
  joinPos,         \* position of a join loop over threads (1-based)
  shard,           \* per shard thread: position and localValidNumbers
  validNumbers,    \* vector<string> validNumbers
  validNumbersMutex, \* owner of the mutex, or NoOwner
  \* --- filterDivisibleByCandidate on its own ---
  fOptions,        \* argument options
  fGCD,            \* argument candidateGCD
  fResult,         \* returned vector
  fpc              \* "call" before the call, "done" after it

mainVars == <<basePuzzle, rowOrder, pcMain, gcdPos, found>>
solverVars == <<candidates, colMask, boxMask, solution, allSolutions, candidateTries, stack>>
progVars == <<solverRunning, pcProg, lastProgress>>
genVars == <<hardware, numThreads, skipDigit, threads, pcGen, joinPos, shard,
             validNumbers, validNumbersMutex>>
filterVars == <<fOptions, fGCD, fResult, fpc>>
vars == <<mainVars, solverVars, progVars, genVars, filterVars>>

\* ------------------------------------------------------------------------
\* filterDivisibleByCandidate
\* ------------------------------------------------------------------------
\* remainder * 10 + (c - '0') is computed in int: it is defined only when
\* the mathematical result fits. Overflowed marks a computation that left
\* the range of int (signed overflow is undefined in the source language).
Overflowed == 0 - 1

FitsInt(remainder, digit) == remainder <= (IntMax - digit) \div 10

\* Mutant of RemainderStep: the remainder is not shifted by one decimal place.
RemainderStepNoShift(remainder, c, d) == (remainder + DigitOf(c)) % d

\* remainder = (remainder * 10 + (c - '0')) % candidateGCD
RemainderStep(remainder, c, d) ==
  IF remainder = Overflowed \/ ~FitsInt(remainder, DigitOf(c))
  THEN Overflowed
  ELSE (remainder * 10 + DigitOf(c)) % d

RECURSIVE RemainderOf(_, _, _)
\* The remainder after the first n characters of opt.
RemainderOf(opt, n, candidateGCD) ==
  IF n = 0 THEN 0
  ELSE RemainderStep(RemainderOf(opt, n - 1, candidateGCD), opt[n], candidateGCD)

Divisible(opt, candidateGCD) == RemainderOf(opt, Len(opt), candidateGCD) = 0

RECURSIVE filterDivisibleByCandidate(_, _)
filterDivisibleByCandidate(options, candidateGCD) ==
  IF options = <<>> THEN <<>>
  ELSE LET opt == Head(options)
           rest == filterDivisibleByCandidate(Tail(options), candidateGCD)
       IN IF Divisible(opt, candidateGCD) THEN <<opt>> \o rest ELSE rest

\* ------------------------------------------------------------------------
\* main: the divisor enumeration
\* ------------------------------------------------------------------------
EndsIn1379(candidateGCD) == (candidateGCD % 10) \in {1, 3, 7, 9}

RECURSIVE GCDsFrom(_)
\* for (candidateGCD = hi; candidateGCD >= MinGCD; candidateGCD--)
GCDsFrom(candidateGCD) ==
  IF candidateGCD < MinGCD THEN <<>>
  ELSE IF EndsIn1379(candidateGCD)
       THEN <<candidateGCD>> \o GCDsFrom(candidateGCD - 1)
       ELSE GCDsFrom(candidateGCD - 1)

RECURSIVE GCDsUpTo(_)
\* Mutant of candidateGCDs: the divisors in ascending order.
GCDsUpTo(d) ==
  IF d > MaxGCD THEN <<>>
  ELSE IF EndsIn1379(d) THEN <<d>> \o GCDsUpTo(d + 1) ELSE GCDsUpTo(d + 1)

candidateGCDsAscending == GCDsUpTo(MinGCD)

candidateGCDs == GCDsFrom(MaxGCD)

candidateGCD == IF gcdPos \in 1 .. Len(candidateGCDs) THEN candidateGCDs[gcdPos] ELSE 0

RECURSIVE FilterRows(_, _, _)
\* The loop over r that filters candidatePuzzle[r] and breaks at the first
\* empty row: the rows 0..r-1 are filtered, the others keep the base lists.
\* Returns the puzzle and validCandidate.
FilterRows(puzzle, r, d) ==
  IF r = GridSize THEN [puzzle |-> puzzle, validCandidate |-> TRUE]
  ELSE LET filtered == filterDivisibleByCandidate(puzzle[r], d)
           next == [puzzle EXCEPT ![r] = filtered]
       IN IF filtered = <<>>
          THEN [puzzle |-> next, validCandidate |-> FALSE]
          ELSE FilterRows(next, r + 1, d)

\* cand.push_back(c - '0') for every character of s
ToDigits(s) == [i \in 1 .. Len(s) |-> DigitOf(s[i])]

ToCandidates(candidatePuzzle) ==
  [r \in Rows |-> [i \in 1 .. Len(candidatePuzzle[r]) |-> ToDigits(candidatePuzzle[r][i])]]

ZeroMask == [i \in 0 .. 8 |-> 0]
ZeroGrid == [r \in Rows |-> [c \in Cols |-> 0]]
CodeRowOrder == <<1, 8, 5, 3, 6, 7, 2, 0, 4>>

getBoxIndex(r, c) == (r \div BoxSize) * BoxSize + (c \div BoxSize)
boxIndices == [r \in Rows |-> [c \in Cols |-> getBoxIndex(r, c)]]

Frame(pos) ==
  [pos |-> pos, idx |-> 1, committed |-> FALSE,
   oldColMask |-> ZeroMask, oldBoxMask |-> ZeroMask]

\* ------------------------------------------------------------------------
\* solveFixed and its helper lambdas
\* ------------------------------------------------------------------------
\* Mutant of hasZeroInFirstColumns: the row loop stops after row 0.
hasZeroInFirstColumnsOfRow0(grid) ==
  \E c \in 0 .. 2 : \E r \in 0 .. 0 : grid[r][c] = 0

\* Any 0 in the first three columns of the grid.
hasZeroInFirstColumns(grid) ==
  \E c \in 0 .. 2 : \E r \in Rows : grid[r][c] = 0

\* Mutant of Conflict: the box masks are not consulted.
ConflictColumnsOnly(cand, r, cm, bm) ==
  \E c \in Cols : TestBit(cm[c], cand[c + 1])

\* The conflict check of one candidate against the masks (the unrolled
\* checks of columns 0 and 1 and the loop over columns 2..8).
Conflict(cand, r, cm, bm) ==
  \E c \in Cols :
    LET d == cand[c + 1]
        b == boxIndices[r][c]
    IN TestBit(cm[c], d) \/ TestBit(bm[b], d)

RECURSIVE CommitMasksOnly(_, _, _, _, _, _)
\* Mutant of CommitFrom: the digit is not written into the grid.
CommitMasksOnly(c, cand, r, cm, bm, grid) ==
  IF c = GridSize THEN [colMask |-> cm, boxMask |-> bm, solution |-> grid]
  ELSE LET d == cand[c + 1]
           b == boxIndices[r][c]
       IN CommitMasksOnly(c + 1, cand, r,
                          [cm EXCEPT ![c] = OrBit(cm[c], d)],
                          [bm EXCEPT ![b] = OrBit(bm[b], d)],
                          grid)

RECURSIVE CommitFrom(_, _, _, _, _, _)
\* The commit loop "for (int c = 0; c < 9; c++)" from column c on.
CommitFrom(c, cand, r, cm, bm, grid) ==
  IF c = GridSize THEN [colMask |-> cm, boxMask |-> bm, solution |-> grid]
  ELSE LET d == cand[c + 1]
           b == boxIndices[r][c]
       IN CommitFrom(c + 1, cand, r,
                     [cm EXCEPT ![c] = OrBit(cm[c], d)],
                     [bm EXCEPT ![b] = OrBit(bm[b], d)],
                     [grid EXCEPT ![r][c] = d])

Top == stack[Len(stack)]
Pop == SubSeq(stack, 1, Len(stack) - 1)
SetTop(f) == [stack EXCEPT ![Len(stack)] = f]

\* Mutant of LoopFinished: the loop is left once a solution is recorded.
LoopFinishedAtFirstSolution(f) ==
  f.idx > Len(candidates[rowOrder[f.pos + 1]]) \/ allSolutions # <<>>

\* The range-for over candidates[r] has no element left.
LoopFinished(f) == f.idx > Len(candidates[rowOrder[f.pos + 1]])

\* Mutant of RestoredMasks: boxMask is not restored.
RestoredColumnsOnly(f) == [colMask |-> f.oldColMask, boxMask |-> boxMask]

\* The masks restored after the recursive call returns.
RestoredMasks(f) == [colMask |-> f.oldColMask, boxMask |-> f.oldBoxMask]

\* pos == 9: accept the grid if the tie-break holds, and return.
SolveTerminal ==
  /\ pcMain = "solve" /\ stack # <<>>
  /\ Top.pos = GridSize
  /\ allSolutions' = IF hasZeroInFirstColumns(solution)
                     THEN Append(allSolutions, solution) ELSE allSolutions
  /\ stack' = Pop
  /\ UNCHANGED <<candidates, colMask, boxMask, solution, candidateTries>>
  /\ UNCHANGED <<mainVars, progVars, genVars, filterVars>>

\* One iteration of the candidate loop that ends in "if (conflict) continue".
RejectCandidate ==
  /\ pcMain = "solve" /\ stack # <<>>
  /\ Top.pos < GridSize /\ ~Top.committed /\ ~LoopFinished(Top)
  /\ LET r == rowOrder[Top.pos + 1]
         cand == candidates[r][Top.idx]
     IN /\ Conflict(cand, r, colMask, boxMask)
        /\ candidateTries' = candidateTries + 1
        /\ stack' = SetTop([Top EXCEPT !.idx = @ + 1])
  /\ UNCHANGED <<candidates, colMask, boxMask, solution, allSolutions>>
  /\ UNCHANGED <<mainVars, progVars, genVars, filterVars>>

\* One iteration without conflict, up to the call solveFixed(pos + 1):
\* snapshot the masks, commit the candidate, enter the recursive call.
CommitCandidate ==
  /\ pcMain = "solve" /\ stack # <<>>
  /\ Top.pos < GridSize /\ ~Top.committed /\ ~LoopFinished(Top)
  /\ LET r == rowOrder[Top.pos + 1]
         cand == candidates[r][Top.idx]
         after == CommitFrom(0, cand, r, colMask, boxMask, solution)
     IN /\ ~Conflict(cand, r, colMask, boxMask)
        /\ candidateTries' = candidateTries + 1
        /\ stack' = Append(SetTop([Top EXCEPT !.committed = TRUE,
                                               !.oldColMask = colMask,
                                               !.oldBoxMask = boxMask]),
                           Frame(Top.pos + 1))
        /\ colMask' = after.colMask
        /\ boxMask' = after.boxMask
        /\ solution' = after.solution
  /\ UNCHANGED <<candidates, allSolutions>>
  /\ UNCHANGED <<mainVars, progVars, genVars, filterVars>>

\* The recursive call has returned: restore the masks, next candidate.
Backtrack ==
  /\ pcMain = "solve" /\ stack # <<>>
  /\ Top.committed
  /\ colMask' = RestoredMasks(Top).colMask
  /\ boxMask' = RestoredMasks(Top).boxMask
  /\ stack' = SetTop([Top EXCEPT !.idx = @ + 1, !.committed = FALSE,
                                 !.oldColMask = ZeroMask, !.oldBoxMask = ZeroMask])
  /\ UNCHANGED <<candidates, solution, allSolutions, candidateTries>>
  /\ UNCHANGED <<mainVars, progVars, genVars, filterVars>>

\* The candidate loop is over: solveFixed(pos) returns. When solveFixed(0)
\* returns, main goes on to stop the progress thread.
SolveReturn ==
  /\ pcMain = "solve" /\ stack # <<>>
  /\ Top.pos < GridSize /\ ~Top.committed /\ LoopFinished(Top)
  /\ stack' = Pop
  /\ pcMain' = IF Len(stack) = 1 THEN "stop" ELSE pcMain
  /\ UNCHANGED <<basePuzzle, rowOrder, gcdPos, found>>
  /\ UNCHANGED <<candidates, colMask, boxMask, solution, allSolutions, candidateTries>>
  /\ UNCHANGED <<progVars, genVars, filterVars>>

\* ------------------------------------------------------------------------
\* main: the body of the divisor loop
\* ------------------------------------------------------------------------
\* One divisor, from the filtering of the rows to the call solveFixed(0):
\* a divisor that empties a row is skipped ("continue"); otherwise the
\* solver state is initialised, the progress thread is started and
\* solveFixed(0) is entered.
TryDivisor ==
  /\ pcMain = "loop" /\ gcdPos <= Len(candidateGCDs)
  /\ LET res == FilterRows(basePuzzle, 0, candidateGCD)
     IN IF ~res.validCandidate
        THEN /\ gcdPos' = gcdPos + 1
             /\ UNCHANGED <<pcMain, solverVars, progVars>>
        ELSE /\ candidates' = ToCandidates(res.puzzle)
             /\ colMask' = ZeroMask
             /\ boxMask' = ZeroMask
             /\ solution' = ZeroGrid
             /\ allSolutions' = <<>>
             /\ candidateTries' = 0
             /\ solverRunning' = TRUE
             /\ pcProg' = "test"
             /\ stack' = <<Frame(0)>>
             /\ pcMain' = "solve"
             /\ UNCHANGED <<gcdPos, lastProgress>>
  /\ UNCHANGED <<basePuzzle, rowOrder, found>>
  /\ UNCHANGED <<genVars, filterVars>>

\* solverRunning = false;
StopProgress ==
  /\ pcMain = "stop"
  /\ solverRunning' = FALSE
  /\ pcMain' = "join"
  /\ UNCHANGED <<basePuzzle, rowOrder, gcdPos, found, pcProg, lastProgress>>
  /\ UNCHANGED <<solverVars, genVars, filterVars>>

\* Mutant of JoinReturns: main does not wait for the thread.
JoinReturnsAtOnce(p) == TRUE

\* join() returns once the thread's function has returned.
JoinReturns(p) == p = "exit"

\* progressThread.join();
JoinProgress ==
  /\ pcMain = "join"
  /\ JoinReturns(pcProg)
  /\ pcMain' = "report"
  /\ UNCHANGED <<basePuzzle, rowOrder, gcdPos, found, progVars>>
  /\ UNCHANGED <<solverVars, genVars, filterVars>>

\* if (!allSolutions.empty())
SolutionFound(sols) == sols # <<>>

\* The solutions are printed and the loop is left ("break"), or the
\* divisor is reported as yielding no solutions and the loop goes on.
ReportResult ==
  /\ pcMain = "report"
  /\ IF SolutionFound(allSolutions)
     THEN /\ found' = candidateGCD
          /\ pcMain' = "done"
          /\ UNCHANGED <<gcdPos, solverVars>>
     ELSE /\ gcdPos' = gcdPos + 1
          /\ pcMain' = "loop"
          /\ UNCHANGED <<found, solverVars>>
  /\ UNCHANGED <<basePuzzle, rowOrder>>
  /\ UNCHANGED <<progVars, genVars, filterVars>>

\* The range-for is exhausted: return 0 with no solution printed.
LoopExhausted ==
  /\ pcMain = "loop" /\ gcdPos > Len(candidateGCDs)
  /\ pcMain' = "done"
  /\ UNCHANGED <<basePuzzle, rowOrder, gcdPos, found>>
  /\ UNCHANGED <<solverVars, progVars, genVars, filterVars>>

\* ------------------------------------------------------------------------
\* The progress thread
\* ------------------------------------------------------------------------
\* solverRunning is a plain bool written by main and read by the thread
\* with no synchronisation: once main has written false, a read may still
\* yield the earlier value.
ReadSolverRunning == IF solverRunning THEN {TRUE} ELSE {TRUE, FALSE}

\* while (solverRunning)
ProgressTest ==
  /\ pcProg = "test"
  /\ \E seen \in ReadSolverRunning :
       pcProg' = IF seen THEN "sleep" ELSE "exit"
  /\ UNCHANGED <<solverRunning, lastProgress>>
  /\ UNCHANGED <<mainVars, solverVars, genVars, filterVars>>

\* The sleep ends and the "Progress update" line is printed.
ProgressReport ==
  /\ pcProg = "sleep"
  /\ lastProgress' = [gcd |-> candidateGCD, pc |-> pcMain]
  /\ pcProg' = "test"
  /\ UNCHANGED solverRunning
  /\ UNCHANGED <<mainVars, solverVars, genVars, filterVars>>

\* ------------------------------------------------------------------------
\* STEP 1 of main: the sharded generator
\* ------------------------------------------------------------------------
\* unsigned int values are kept as two 16-bit halves, so that the full
\* 32-bit width is represented.
U32(n) == [hi |-> n \div HalfWord, lo |-> n % HalfWord]
U32Less(a, b) == a.hi < b.hi \/ (a.hi = b.hi /\ a.lo < b.lo)
U32Max(a, b) == IF U32Less(a, b) THEN b ELSE a
\* a - b in unsigned int arithmetic (modulo 2^32)
U32Sub(a, b) ==
  LET borrow == IF a.lo < b.lo THEN 1 ELSE 0
  IN [hi |-> (a.hi - b.hi - borrow + HalfWord) % HalfWord,
      lo |-> (a.lo - b.lo + HalfWord) % HalfWord]

\* max(1u, thread::hardware_concurrency() - 1)
NumThreadsOf(h) == U32Max(U32(1), U32Sub(U32(h), U32(1)))

\* '9', the last character of the alphabet
LastDigit == Zero + NumDigits - 1
Alphabet == Zero .. LastDigit

\* vector<char> requiredDigits = {'0','2','5'}
requiredDigits == SelectSeq(<<Zero, Zero + 2, Zero + 5>>, LAMBDA c : c <= LastDigit)

RECURSIVE DigitMaskOf(_, _)
\* digitMask after the first n characters of number
DigitMaskOf(number, n) ==
  IF n = 0 THEN 0 ELSE OrBit(DigitMaskOf(number, n - 1), DigitOf(number[n]))

containsRequiredDigits(number, required) ==
  \A k \in 1 .. Len(required) :
    TestBit(DigitMaskOf(number, Len(number)), DigitOf(required[k]))

\* find(requiredDigits.begin(), requiredDigits.end(), skipDigit) != end
IsRequired(c) == \E k \in 1 .. Len(requiredDigits) : requiredDigits[k] = c

RECURSIVE DigitsFrom(_, _)
\* The string of all digits from d on except skip, in increasing order
DigitsFrom(d, skip) ==
  IF d > LastDigit THEN <<>>
  ELSE IF d # skip THEN <<d>> \o DigitsFrom(d + 1, skip) ELSE DigitsFrom(d + 1, skip)

Reverse(s) == [i \in 1 .. Len(s) |-> s[Len(s) + 1 - i]]

\* std::next_permutation: the next string in lexicographic order and true,
\* or the first one (the string reversed) and false after the last.
next_permutation(s) ==
  LET n == Len(s)
      ascents == { i \in 1 .. (n - 1) : s[i] < s[i + 1] }
  IN IF ascents = {}
     THEN [str |-> Reverse(s), more |-> FALSE]
     ELSE LET i == CHOOSE x \in ascents : \A y \in ascents : y <= x
              j == CHOOSE x \in (i + 1) .. n :
                     /\ s[x] > s[i]
                     /\ \A y \in (i + 1) .. n : s[y] > s[i] => y <= x
              swapped == [s EXCEPT ![i] = s[j], ![j] = s[i]]
          IN [str |-> SubSeq(swapped, 1, i) \o Reverse(SubSeq(swapped, i + 1, n)),
              more |-> TRUE]

Factorial(n) ==
  IF n <= 1 THEN 1
  ELSE LET f[k \in 1 .. n] == IF k = 1 THEN 1 ELSE k * f[k - 1] IN f[n]

\* One pass through the body of the do-while loop and its condition.
PermutationBody(st) ==
  IF ~st.more THEN st
  ELSE LET kept == IF containsRequiredDigits(st.str, requiredDigits)
                   THEN Append(st.kept, st.str)
                   ELSE st.kept
           step == next_permutation(st.str)
       IN [str |-> step.str, kept |-> kept, more |-> step.more]

RECURSIVE PermutationPasses(_, _)
\* n passes (a pass after the loop has ended changes nothing).
PermutationPasses(st, n) ==
  IF n = 0 THEN st
  ELSE IF n = 1 THEN PermutationBody(st)
  ELSE LET half == PermutationPasses(st, n \div 2)
       IN IF half.more THEN PermutationPasses(half, n - (n \div 2)) ELSE half

\* do { if (containsRequiredDigits(...)) push_back; } while (next_permutation):
\* the loop ends within Len(localDigits)! passes.
PermutationLoop(localDigits, localValidNumbers) ==
  PermutationPasses([str |-> localDigits, kept |-> localValidNumbers, more |-> TRUE],
                    Factorial(Len(localDigits))).kept

\* Mutant of MutexFree: the lock never excludes anybody.
MutexAlwaysFree(m) == TRUE

\* lock_guard<mutex> can take the mutex.
MutexFree(m) == m = NoOwner

ShardIds == { c \in Alphabet : ~IsRequired(c) }
NoShard == [pc |-> "none", digits |-> <<>>, localValidNumbers |-> <<>>, seen |-> <<>>]

\* One iteration of the shard loop, joins excluded: a required digit is
\* skipped ("continue"); otherwise the shard thread is started and, when
\* the thread limit is reached or this is the last digit, the join loop is
\* entered.
GenIterate ==
  /\ pcGen = "loop" /\ skipDigit <= LastDigit
  /\ IF IsRequired(skipDigit)
     THEN /\ skipDigit' = skipDigit + 1
          /\ UNCHANGED <<threads, shard, pcGen, joinPos>>
     ELSE /\ threads' = Append(threads, skipDigit)
          /\ shard' = [shard EXCEPT ![skipDigit] =
                         [pc |-> "run", digits |-> DigitsFrom(Zero, skipDigit),
                          localValidNumbers |-> <<>>, seen |-> <<>>]]
          /\ IF ~U32Less(U32(Len(threads')), numThreads) \/ skipDigit = LastDigit
             THEN pcGen' = "join" /\ joinPos' = 1 /\ UNCHANGED skipDigit
             ELSE skipDigit' = skipDigit + 1 /\ UNCHANGED <<pcGen, joinPos>>
  /\ UNCHANGED <<hardware, numThreads, validNumbers, validNumbersMutex>>
  /\ UNCHANGED <<mainVars, solverVars, progVars, filterVars>>

\* t.join() for one thread of a join loop: returns when the thread's
\* function has returned.
GenJoin ==
  /\ pcGen \in {"join", "final"} /\ joinPos <= Len(threads)
  /\ shard[threads[joinPos]].pc = "finished"
  /\ shard' = [shard EXCEPT ![threads[joinPos]].pc = "joined"]
  /\ joinPos' = joinPos + 1
  /\ UNCHANGED <<hardware, numThreads, skipDigit, threads, pcGen, validNumbers,
                 validNumbersMutex>>
  /\ UNCHANGED <<mainVars, solverVars, progVars, filterVars>>

\* threads.clear() after the join loop inside the shard loop; skipDigit++.
GenBatchJoined ==
  /\ pcGen = "join" /\ joinPos > Len(threads)
  /\ threads' = <<>>
  /\ skipDigit' = skipDigit + 1
  /\ pcGen' = "loop"
  /\ UNCHANGED <<hardware, numThreads, joinPos, shard, validNumbers, validNumbersMutex>>
  /\ UNCHANGED <<mainVars, solverVars, progVars, filterVars>>

\* The shard loop is over: the join loop "make sure all threads are joined".
GenLoopDone ==
  /\ pcGen = "loop" /\ skipDigit > LastDigit
  /\ pcGen' = "final" /\ joinPos' = 1
  /\ UNCHANGED <<hardware, numThreads, skipDigit, threads, shard, validNumbers,
                 validNumbersMutex>>
  /\ UNCHANGED <<mainVars, solverVars, progVars, filterVars>>

\* The last join loop is over: STEP 2 (the row builder) starts.
GenFinish ==
  /\ pcGen = "final" /\ joinPos > Len(threads)
  /\ pcGen' = "build"
  /\ UNCHANGED <<hardware, numThreads, skipDigit, threads, joinPos, shard,
                 validNumbers, validNumbersMutex>>
  /\ UNCHANGED <<mainVars, solverVars, progVars, filterVars>>

\* The shard thread enumerates its permutations into localValidNumbers.
ShardGenerate(s) ==
  /\ shard[s].pc = "run"
  /\ shard' = [shard EXCEPT ![s].pc = "lock",
                            ![s].localValidNumbers = PermutationLoop(shard[s].digits, <<>>)]
  /\ UNCHANGED <<hardware, numThreads, skipDigit, threads, pcGen, joinPos,
                 validNumbers, validNumbersMutex>>
  /\ UNCHANGED <<mainVars, solverVars, progVars, filterVars>>

\* lock_guard guard(validNumbersMutex); the insert reads validNumbers.end()
ShardLock(s) ==
  /\ shard[s].pc = "lock"
  /\ MutexFree(validNumbersMutex)
  /\ validNumbersMutex' = s
  /\ shard' = [shard EXCEPT ![s].pc = "insert", ![s].seen = validNumbers]
  /\ UNCHANGED <<hardware, numThreads, skipDigit, threads, pcGen, joinPos, validNumbers>>
  /\ UNCHANGED <<mainVars, solverVars, progVars, filterVars>>

\* The insert writes the local strings after the end it read; the guard
\* is released and the thread's function returns.
ShardInsert(s) ==
  /\ shard[s].pc = "insert"
  /\ validNumbers' = shard[s].seen \o shard[s].localValidNumbers
  /\ validNumbersMutex' = NoOwner
  /\ shard' = [shard EXCEPT ![s].pc = "finished", ![s].seen = <<>>]
  /\ UNCHANGED <<hardware, numThreads, skipDigit, threads, pcGen, joinPos>>
  /\ UNCHANGED <<mainVars, solverVars, progVars, filterVars>>

\* ------------------------------------------------------------------------
\* Specification of the divisor loop, the solver and the progress thread
\* ------------------------------------------------------------------------
NoProgress == [gcd |-> 0, pc |-> "none"]

\* The generator and the stand-alone filter take no part in Spec.
GenIdle ==
  /\ hardware = 0 /\ numThreads = U32(0) /\ skipDigit = Zero /\ threads = <<>>
  /\ pcGen = "idle" /\ joinPos = 0 /\ shard = [c \in ShardIds |-> NoShard]
  /\ validNumbers = <<>> /\ validNumbersMutex = NoOwner

FilterIdle ==
  /\ fOptions = <<>> /\ fGCD = 0 /\ fResult = <<>> /\ fpc = "idle"

MainIdle ==
  /\ basePuzzle = [r \in Rows |-> <<>>] /\ rowOrder = CodeRowOrder
  /\ pcMain = "idle" /\ gcdPos = 0 /\ found = 0

SolverIdle ==
  /\ candidates = [r \in Rows |-> <<>>]
  /\ colMask = ZeroMask /\ boxMask = ZeroMask
  /\ solution = ZeroGrid /\ allSolutions = <<>>
  /\ candidateTries = 0 /\ stack = <<>>
  /\ solverRunning = FALSE /\ pcProg = "none" /\ lastProgress = NoProgress

Init ==
  /\ basePuzzle \in BasePuzzles
  /\ rowOrder = CodeRowOrder
  /\ pcMain = "loop" /\ gcdPos = 1 /\ found = 0
  /\ SolverIdle /\ GenIdle /\ FilterIdle

Next ==
  \/ TryDivisor
  \/ LoopExhausted
  \/ RejectCandidate
  \/ CommitCandidate
  \/ SolveTerminal
  \/ Backtrack
  \/ SolveReturn
  \/ StopProgress
  \/ JoinProgress
  \/ ReportResult
  \/ ProgressTest
  \/ ProgressReport

Spec == Init /\ [][Next]_vars

\* ------------------------------------------------------------------------
\* Specification of the generator
\* ------------------------------------------------------------------------
InitGen ==
  /\ hardware \in 0 .. MaxHardware
  /\ numThreads = NumThreadsOf(hardware)
  /\ skipDigit = Zero
  /\ threads = <<>>
  /\ pcGen = "loop" /\ joinPos = 0
  /\ shard = [c \in ShardIds |-> NoShard]
  /\ validNumbers = <<>> /\ validNumbersMutex = NoOwner
  /\ MainIdle /\ SolverIdle /\ FilterIdle

NextGen ==
  \/ GenIterate
  \/ GenJoin
  \/ GenBatchJoined
  \/ GenLoopDone
  \/ GenFinish
  \/ \E s \in ShardIds : ShardGenerate(s)
  \/ \E s \in ShardIds : ShardLock(s)
  \/ \E s \in ShardIds : ShardInsert(s)

SpecGen == InitGen /\ [][NextGen]_vars

\* ------------------------------------------------------------------------
\* Specification of the row-visitation orders
\* ------------------------------------------------------------------------
RowOrders == {CodeRowOrder, <<0, 1, 2, 3, 4, 5, 6, 7, 8>>, <<8, 7, 6, 5, 4, 3, 2, 1, 0>>}

InitOrder ==
  /\ basePuzzle \in BasePuzzles
  /\ rowOrder \in RowOrders
  /\ pcMain = "loop" /\ gcdPos = 1 /\ found = 0
  /\ SolverIdle /\ GenIdle /\ FilterIdle

SpecOrder == InitOrder /\ [][Next]_vars

\* ------------------------------------------------------------------------
\* Specification of filterDivisibleByCandidate on its own
\* ------------------------------------------------------------------------
\* The ends of the divisor enumeration in the source.
CodeMinGCD == 337
CodeMaxGCD == 12345678
\* The ends of the enumerated range, divisors inside it, and the divisor 9
\* of the documented scenario ("123456789" is a multiple of 9).
FilterDivisors ==
  {9, CodeMinGCD, 999, 333667, CodeMaxGCD - 1, CodeMaxGCD}

\* Multiples of the divisors above and other strings; "987654231" reaches
\* the remainder 12345677 before its last digit under the divisor 12345678.
FilterStrings ==
  { Str(<<1,2,3,4,5,6,7,8,9>>),
    Str(<<3,9,5,0,6,1,7,2,8>>),
    Str(<<0,1,2,3,6,8,5,7,4>>),
    Str(<<0,1,4,3,2,7,6,5,8>>),
    Str(<<3,0,8,6,4,1,9,2,5>>),
    Str(<<1,2,3,4,5,6,7,8,0>>),
    Str(<<9,8,7,6,5,4,2,3,1>>) }

RECURSIVE ListsUpTo(_)
\* Every list of at most n of the strings.
ListsUpTo(n) ==
  IF n = 0 THEN {<<>>}
  ELSE LET shorter == ListsUpTo(n - 1)
       IN shorter \cup { Append(l, x) : <<l, x>> \in shorter \X FilterStrings }

InitFilter ==
  /\ fOptions \in ListsUpTo(MaxOptions)
  /\ fGCD \in FilterDivisors
  /\ fResult = <<>>
  /\ fpc = "call"
  /\ MainIdle /\ SolverIdle /\ GenIdle

\* The call filterDivisibleByCandidate(options, candidateGCD).
FilterCall ==
  /\ fpc = "call"
  /\ fResult' = filterDivisibleByCandidate(fOptions, fGCD)
  /\ fpc' = "done"
  /\ UNCHANGED <<fOptions, fGCD>>
  /\ UNCHANGED <<mainVars, solverVars, progVars, genVars>>

NextFilter == FilterCall

SpecFilter == InitFilter /\ [][NextFilter]_vars

\* ------------------------------------------------------------------------
\* Reference definitions used by the properties (no masks, no recursion
\* order: plain sets of digits)
\* ------------------------------------------------------------------------
Boxes == 0 .. (GridSize - 1)
BoxCells(b) ==
  { <<r, c>> \in Rows \X Cols :
      r \div BoxSize = b \div BoxSize /\ c \div BoxSize = b % BoxSize }

RowDigits(g, r) == { g[r][c] : c \in Cols }
ColDigits(g, c) == { g[r][c] : r \in Rows }
BoxDigits(g, b) == { g[cell[1]][cell[2]] : cell \in BoxCells(b) }

RowsDistinct(g) == \A r \in Rows : Cardinality(RowDigits(g, r)) = GridSize
ColsDistinct(g) == \A c \in Cols : Cardinality(ColDigits(g, c)) = GridSize
BoxesDistinct(g) == \A b \in Boxes : Cardinality(BoxDigits(g, b)) = GridSize

\* The grid whose row r is the digit vector row[r].
GridOfRows(row) == [r \in Rows |-> [c \in Cols |-> row[r][c + 1]]]

\* Two digit vectors placed in rows r1 # r2 do not clash in a column, nor
\* in a box when the rows share a band.
Compatible(v1, r1, v2, r2) ==
  /\ \A c \in Cols : v1[c + 1] # v2[c + 1]
  /\ (r1 \div BoxSize = r2 \div BoxSize) =>
       \A c1, c2 \in Cols :
         (c1 \div BoxSize = c2 \div BoxSize) => v1[c1 + 1] # v2[c2 + 1]

RECURSIVE ConsistentChoices(_, _)
\* Every choice of one candidate index per row 0..n-1 (a sequence of
\* indices) whose chosen rows are pairwise compatible.  A complete choice
\* is consistent exactly when its grid has distinct digits in every
\* column and every box (given rows of distinct digits).
ConsistentChoices(cands, n) ==
  IF n = 0 THEN {<<>>}
  ELSE { Append(f, i) :
           <<f, i>> \in
             { <<f, i>> \in ConsistentChoices(cands, n - 1) \X (1 .. Len(cands[n - 1])) :
                 \A q \in 1 .. (n - 1) :
                   Compatible(cands[q - 1][f[q]], q - 1, cands[n - 1][i], n - 1) } }

ChoiceGrid(cands, f) == GridOfRows([r \in Rows |-> cands[r][f[r + 1]]])

\* The complete choices that are solutions: consistent, and with a zero in
\* one of the first three columns.
SolutionChoices(cands) ==
  { f \in ConsistentChoices(cands, GridSize) :
      \E r \in Rows : \E c \in 0 .. 2 : cands[r][f[r + 1]][c + 1] = 0 }

RECURSIVE ValueOf(_, _)
\* The base-10 value of the first n characters of a string.
ValueOf(s, n) == IF n = 0 THEN 0 ELSE ValueOf(s, n - 1) * 10 + (s[n] - Zero)

\* The option lists of a divisor: the strings of the base lists whose
\* value is a multiple of d, as digit vectors.
MultiplesOf(list, d) ==
  SelectSeq(list, LAMBDA s : ValueOf(s, Len(s)) % d = 0)

DivisorCandidates(bp, d) ==
  [r \in Rows |-> LET m == MultiplesOf(bp[r], d)
                  IN [i \in 1 .. Len(m) |-> [k \in 1 .. Len(m[i]) |-> m[i][k] - Zero]]]

\* The solution set of a divisor.
DivisorSolutions(bp, d) == SolutionChoices(DivisorCandidates(bp, d))

EnumeratedGCDs == { d \in MinGCD .. MaxGCD : d % 10 \in {1, 3, 7, 9} }

SeqToSet(s) == { s[i] : i \in 1 .. Len(s) }
NoDuplicates(s) == \A i, j \in 1 .. Len(s) : s[i] = s[j] => i = j

\* solveFixed(0) has returned and its results are still in place.
SolverReturned == pcMain \in {"stop", "join", "report"}

\* ------------------------------------------------------------------------
\* Properties
\* ------------------------------------------------------------------------
\* C1: every grid appended to allSolutions has nine pairwise-distinct
\* digits in each row, each column and each 3x3 box.
C1_GridsValid ==
  \A i \in 1 .. Len(allSolutions) :
    /\ RowsDistinct(allSolutions[i])
    /\ ColsDistinct(allSolutions[i])
    /\ BoxesDistinct(allSolutions[i])

\* A grid has been accepted by a search that also met conflicts.
C1_Witness == allSolutions # <<>> /\ candidateTries > GridSize

\* C2: when the loop reports divisor d, every enumerated divisor above d
\* has an empty solution set, and the loop has stopped at d: no smaller
\* divisor is tried afterwards.
C2_FirstHitIsMaximum ==
  found # 0 =>
    /\ pcMain = "done"
    /\ candidateGCD = found
    /\ DivisorSolutions(basePuzzle, found) # {}
    /\ \A d \in EnumeratedGCDs : d > found => DivisorSolutions(basePuzzle, d) = {}

\* A divisor is reported after a larger divisor went through a full search
\* that accepted nothing, while a smaller divisor has solutions too.
C2_Witness ==
  /\ found # 0 /\ gcdPos > 1
  /\ \E d \in EnumeratedGCDs :
       /\ d > found
       /\ \A r \in Rows : DivisorCandidates(basePuzzle, d)[r] # <<>>
  /\ \E d \in EnumeratedGCDs : d < found /\ DivisorSolutions(basePuzzle, d) # {}

\* C3: when solveFixed(0) has returned, allSolutions holds exactly once
\* every choice of one candidate per row that satisfies column uniqueness,
\* box uniqueness and the tie-break, and nothing else.
C3_AllSolutionsExactlyOnce ==
  SolverReturned =>
    /\ NoDuplicates(allSolutions)
    /\ SeqToSet(allSolutions) =
         { ChoiceGrid(candidates, f) : f \in SolutionChoices(candidates) }
    /\ Len(allSolutions) = Cardinality(SolutionChoices(candidates))

\* The search went on after its first solution and returned with two.
C3_Witness == SolverReturned /\ Len(allSolutions) >= 2

\* C4 (as claimed): in every accepted grid one digit of 0..9 is absent
\* from every row, every column and every box.  solveFixed accepts GridM,
\* whose rows do not share one digit set.
C4_SameNineDigitSet ==
  \A i \in 1 .. Len(allSolutions) :
    \E m \in 0 .. 9 :
      LET nine == (0 .. 9) \ {m}
          g == allSolutions[i]
      IN /\ \A r \in Rows : RowDigits(g, r) = nine
         /\ \A c \in Cols : ColDigits(g, c) = nine
         /\ \A b \in Boxes : BoxDigits(g, b) = nine

\* C5: every accepted grid holds a 0 in one of the columns 0..2, and the
\* grid tested at a terminal state is made of the rows committed on the
\* current search path, cell by cell.
C5_TieBreakOnCommittedRows ==
  /\ \A i \in 1 .. Len(allSolutions) :
       \E r \in Rows : \E c \in 0 .. 2 : allSolutions[i][r][c] = 0
  /\ (pcMain = "solve" /\ stack # <<>> /\ Top.pos = GridSize) =>
       /\ Len(stack) = GridSize + 1
       /\ \A p \in 1 .. GridSize :
            LET r == rowOrder[p]
            IN \A c \in Cols : solution[r][c] = candidates[r][stack[p].idx][c + 1]

\* After a grid has been accepted, the same search reaches a complete grid
\* with no 0 in the columns 0..2, which the tie-break rejects.
C5_Witness ==
  /\ pcMain = "solve" /\ stack # <<>> /\ Top.pos = GridSize
  /\ allSolutions # <<>>
  /\ ~hasZeroInFirstColumns(solution)

\* C7 (as claimed): no progress line is printed once solveFixed(0) has
\* returned for the divisor.  The thread prints after its sleep without
\* testing solverRunning again, while main waits in join.
C7_ReportsOnlyInFlight == lastProgress.pc \in {"none", "solve"}

\* C8: when main reads allSolutions the progress thread has been told to
\* stop and has been joined; no progress line is printed after the result
\* of the invocation is reported; the thread's steps leave masks, grid,
\* candidate lists, counter and accumulator alone.
C8_MonitorJoinedBeforeResult ==
  /\ [](/\ pcMain \in {"report", "loop", "done"} => pcProg \in {"none", "exit"}
        /\ pcMain = "report" => ~solverRunning
        /\ lastProgress.pc \in {"none", "solve", "stop", "join"})
  /\ [][(pcProg \in {"test", "sleep"} /\ pcProg' # pcProg)
          => UNCHANGED <<solverVars, basePuzzle, rowOrder, found>>]_vars

\* Main reads the accumulator of an invocation during which a progress
\* line was printed.
C8_Witness ==
  /\ pcMain = "report"
  /\ lastProgress.gcd = candidateGCD

\* The masks that hold exactly the digits of the committed rows.
CommittedFrames == { p \in 1 .. Len(stack) : stack[p].committed }
CommittedDigit(p, c) == candidates[rowOrder[stack[p].pos + 1]][stack[p].idx][c + 1]

RECURSIVE MaskOfDigits(_)
MaskOfDigits(ds) ==
  IF ds = {} THEN 0
  ELSE LET d == CHOOSE x \in ds : TRUE IN Shl1(d) + MaskOfDigits(ds \ {d})

ExpectedColMask(c) == MaskOfDigits({ CommittedDigit(p, c) : p \in CommittedFrames })
ExpectedBoxMask(b) ==
  MaskOfDigits({ CommittedDigit(p, c) :
                   <<p, c>> \in { <<p, c>> \in CommittedFrames \X Cols :
                                    boxIndices[rowOrder[stack[p].pos + 1]][c] = b } })

\* C10: colMask and boxMask hold exactly the digits of the rows committed
\* on the current path: after the return from a candidate they are what
\* they were before it was committed, at the entry of solveFixed(p) they
\* hold the rows rowOrder[0..p-1], and they are all zero when solveFixed(0)
\* has returned.
C10_MasksRolledBack ==
  (pcMain \in {"solve", "stop", "join", "report"}) =>
    /\ \A c \in Cols : colMask[c] = ExpectedColMask(c)
    /\ \A b \in Boxes : boxMask[b] = ExpectedBoxMask(b)
    /\ \A p \in 1 .. Len(stack) :
         /\ stack[p].pos = p - 1
         /\ p < Len(stack) => stack[p].committed
    /\ SolverReturned => (stack = <<>> /\ colMask = ZeroMask /\ boxMask = ZeroMask)

\* The masks are back to an earlier value after a candidate was explored
\* below two committed rows.
C10_Witness ==
  /\ pcMain = "solve" /\ Len(stack) = 3
  /\ ~Top.committed /\ Top.idx > 1
  /\ candidateTries > 4
  /\ colMask # ZeroMask

\* C6: filterDivisibleByCandidate keeps a string exactly when its base-10
\* value is a multiple of the divisor, in input order, and the accumulation
\* remainder * 10 + digit stays within int.
C6_FilterKeepsMultiples ==
  fpc = "done" =>
    /\ fResult = SelectSeq(fOptions, LAMBDA s : ValueOf(s, Len(s)) % fGCD = 0)
    /\ \A i \in 1 .. Len(fOptions) : \A n \in 1 .. Len(fOptions[i]) :
         LET before == RemainderOf(fOptions[i], n - 1, fGCD)
         IN /\ before # Overflowed
            /\ before * 10 + DigitOf(fOptions[i][n]) <= (CodeMaxGCD - 1) * 10 + 9
            /\ (CodeMaxGCD - 1) * 10 + 9 <= IntMax
            /\ RemainderOf(fOptions[i], n, fGCD) = ValueOf(fOptions[i], n) % fGCD

\* A divisor of the enumerated range kept one string and dropped another.
C6_Witness ==
  /\ fpc = "done" /\ fGCD >= CodeMinGCD
  /\ fResult # <<>> /\ Len(fResult) < Len(fOptions)

\* Every permutation of every sub-alphabet that lacks one digit and holds
\* all required digits.
ExpectedStrings ==
  { str \in [1 .. (NumDigits - 1) -> Alphabet] :
      /\ \A i, j \in 1 .. (NumDigits - 1) : str[i] = str[j] => i = j
      /\ \A k \in 1 .. Len(requiredDigits) :
           \E i \in 1 .. (NumDigits - 1) : str[i] = requiredDigits[k] }

\* C9: when the row builder starts, every shard thread has been joined and
\* validNumbers holds exactly once each permutation of each sub-alphabet
\* that lacks one non-required digit: (NumDigits - k) * (NumDigits - 1)!
\* strings, whatever the interleaving and the pool size.
C9_PoolComplete ==
  pcGen = "build" =>
    /\ \A c \in ShardIds : shard[c].pc = "joined"
    /\ validNumbersMutex = NoOwner
    /\ SeqToSet(validNumbers) = ExpectedStrings
    /\ Cardinality(SeqToSet(validNumbers)) = Len(validNumbers)
    /\ Len(validNumbers) = (NumDigits - Len(requiredDigits)) * Factorial(NumDigits - 1)

\* The row builder starts on a pool whose first strings come from a shard
\* other than the first one started: the shards ran concurrently.
C9_Witness ==
  /\ pcGen = "build"
  /\ validNumbers # <<>>
  /\ \E i \in 1 .. Len(validNumbers[1]) : validNumbers[1][i] = Zero + 1

\* ------------------------------------------------------------------------
\* The thread pool of the generator (SpecGen)
\* ------------------------------------------------------------------------
\* The shard threads that have been started and are not yet joined.
LiveThreads ==
  { s \in ShardIds : shard[s].pc \in {"run", "lock", "insert", "finished"} }

\* Hardware parallelism minus one reserved unit, at least 1.
PoolSize(h) == IF h - 1 > 1 THEN h - 1 ELSE 1

\* C11 (as claimed): at every moment of generation the number of shard
\* threads started and not yet joined is at most the pool size, hardware
\* parallelism minus one and at least 1, for every reported parallelism
\* including 0 and 1.  With hardware_concurrency() = 0 the unsigned
\* subtraction wraps to 2^32 - 1, the thread limit is never reached and
\* every shard thread runs at once.
C11_LiveThreadsWithinPool ==
  pcGen \in {"loop", "join", "final", "build"}
    => Cardinality(LiveThreads) <= PoolSize(hardware)

\* ------------------------------------------------------------------------
\* STEP 2: the row builder, and the divisor loop on the lists it builds
\* ------------------------------------------------------------------------
\* The character of the digit d.
CharOf(d) == Zero + d

\* vector<char> requiredDigits = {'0','2','5'}, for nine-character strings
CodeRequiredDigits == <<CharOf(0), CharOf(2), CharOf(5)>>

\* Keep the numbers whose character at the column is the value.
filterByColumn(numbers, column, value) ==
  SelectSeq(numbers, LAMBDA number : number[column + 1] = value)

\* Keep the numbers whose character at the column is not disallowed.
filterDisallowedValues(numbers, column, disallowedValues) ==
  SelectSeq(numbers, LAMBDA number : number[column + 1] \notin disallowedValues)

RECURSIVE Disallowed(_, _)
\* A run of statements "options = filterDisallowedValues(options, column,
\* values)", one per pair <<column, values>> of steps, in order.
Disallowed(numbers, steps) ==
  IF steps = <<>> THEN numbers
  ELSE Disallowed(filterDisallowedValues(numbers, Head(steps)[1], Head(steps)[2]),
                  Tail(steps))

row1Options(numbers) ==
  Disallowed(filterByColumn(numbers, 7, CharOf(2)),
             << <<2, {CharOf(0)}>>, <<4, {CharOf(0)}>>,
                <<6, {CharOf(5)}>>, <<8, {CharOf(5)}>> >>)

row2Options(numbers) ==
  Disallowed(filterByColumn(filterByColumn(numbers, 4, CharOf(2)), 8, CharOf(5)),
             << <<2, {CharOf(0)}>>, <<4, {CharOf(0)}>> >>)

row3Options(numbers) ==
  Disallowed(filterByColumn(numbers, 1, CharOf(2)),
             << <<2, {CharOf(0)}>>, <<4, {CharOf(0)}>>,
                <<6, {CharOf(5)}>>, <<7, {CharOf(5)}>>, <<8, {CharOf(5)}>> >>)

\* Row index 3: the clue 0 at column index 2.
row4Options(numbers) ==
  Disallowed(filterByColumn(numbers, 2, CharOf(0)),
             << <<1, {CharOf(2)}>>, <<3, {CharOf(2)}>>, <<4, {CharOf(2)}>>,
                <<5, {CharOf(2)}>>, <<7, {CharOf(2)}>>,
                <<6, {CharOf(5)}>>, <<8, {CharOf(5)}>> >>)

row5Options(numbers) ==
  Disallowed(numbers,
             << <<0, {CharOf(0)}>>, <<1, {CharOf(0), CharOf(2)}>>,
                <<2, {CharOf(0)}>>, <<4, {CharOf(0), CharOf(2)}>>,
                <<6, {CharOf(5)}>>, <<8, {CharOf(5)}>> >>)

row6Options(numbers) ==
  Disallowed(filterByColumn(numbers, 3, CharOf(2)),
             << <<0, {CharOf(0)}>>, <<1, {CharOf(0)}>>, <<2, {CharOf(0)}>>,
                <<4, {CharOf(0)}>>, <<6, {CharOf(5)}>>, <<8, {CharOf(5)}>> >>)

row7Options(numbers) ==
  Disallowed(filterByColumn(numbers, 4, CharOf(0)),
             << <<1, {CharOf(2)}>>, <<3, {CharOf(2)}>>, <<5, {CharOf(2)}>>,
                <<7, {CharOf(2)}>>, <<6, {CharOf(5)}>>, <<7, {CharOf(5)}>>,
                <<8, {CharOf(5)}>> >>)

row8Options(numbers) ==
  Disallowed(filterByColumn(numbers, 5, CharOf(2)),
             << <<2, {CharOf(0)}>>, <<3, {CharOf(0)}>>, <<4, {CharOf(0)}>>,
                <<6, {CharOf(5)}>>, <<7, {CharOf(5)}>>, <<8, {CharOf(5)}>> >>)

row9Options(numbers) ==
  Disallowed(filterByColumn(numbers, 6, CharOf(5)),
             << <<1, {CharOf(2)}>>, <<3, {CharOf(2)}>>, <<4, {CharOf(2)}>>,
                <<5, {CharOf(2)}>>, <<7, {CharOf(2)}>>,
                <<2, {CharOf(0)}>>, <<3, {CharOf(0)}>>, <<4, {CharOf(0)}>>,
                <<5, {CharOf(0)}>> >>)

\* vector<vector<string>> puzzle(9), filled row by row from validNumbers.
puzzle(numbers) ==
  <<row1Options(numbers), row2Options(numbers), row3Options(numbers),
    row4Options(numbers), row5Options(numbers), row6Options(numbers),
    row7Options(numbers), row8Options(numbers), row9Options(numbers)>>

\* basePuzzle = puzzle, indexed by the row index 0..8.
BasePuzzleOf(numbers) == [r \in Rows |-> puzzle(numbers)[r + 1]]

\* The published solution of the puzzle: the rows of GridA with the rows
\* of the last band in the places the clues give them.
GridP ==
  <<GridA[1], GridA[2], GridA[3], GridA[4], GridA[5], GridA[6],
    GridA[9], GridA[7], GridA[8]>>

\* Three grids on the digits 0..8 that agree with every clue of the row
\* builder (every row a multiple of 9); they share their first rows.
GridF ==
  <<
     Str(<<8,5,1,3,4,7,0,2,6>>),
     Str(<<6,7,4,1,2,0,3,8,5>>),
     Str(<<0,2,3,8,5,6,4,1,7>>),
     Str(<<7,3,0,6,1,4,2,5,8>>),
     Str(<<2,1,6,0,8,5,7,3,4>>),
     Str(<<4,8,5,2,7,3,6,0,1>>),
     Str(<<3,4,7,5,0,1,8,6,2>>),
     Str(<<5,6,8,4,3,2,1,7,0>>),
     Str(<<1,0,2,7,6,8,5,4,3>>)
  >>

GridG ==
  <<
     GridF[1], GridF[2], GridF[3], GridF[4], GridF[5],
     Str(<<4,8,5,2,7,3,1,6,0>>),
     Str(<<3,4,8,5,0,1,6,7,2>>),
     Str(<<5,6,7,4,3,2,8,0,1>>),
     GridF[9]
  >>

GridH ==
  <<
     GridF[1], GridF[2], GridF[3], GridF[4], GridF[5],
     GridG[6],
     Str(<<3,6,7,5,0,1,8,4,2>>),
     Str(<<5,0,8,4,3,2,6,7,1>>),
     Str(<<1,4,2,7,6,8,5,0,3>>)
  >>

ConfigIds == <<"P", "F", "G", "H", "N", "Z">>

ConfigGrid(id) ==
  CASE id = "P" -> GridP
    [] id = "F" -> GridF
    [] id = "G" -> GridG
    [] id = "H" -> GridH
    [] id = "N" -> GridN
    [] id = "Z" -> GridZ

RECURSIVE GridStrings(_, _)
\* The rows of the chosen grids among the first k grids of ConfigIds, each
\* string once.
GridStrings(chosen, k) ==
  IF k = 0 THEN <<>>
  ELSE LET before == GridStrings(chosen, k - 1)
       IN IF ConfigIds[k] \in chosen
          THEN before \o SelectSeq(ConfigGrid(ConfigIds[k]),
                                   LAMBDA s : ~InSeq(s, before))
          ELSE before

\* What STEP 1 leaves in validNumbers of a set of strings: those that hold
\* every required digit.
ValidNumbersOf(strings) ==
  SelectSeq(strings, LAMBDA number : containsRequiredDigits(number, CodeRequiredDigits))

ConfigValidNumbers ==
  { ValidNumbersOf(GridStrings(chosen, Len(ConfigIds))) :
      chosen \in (SUBSET {ConfigIds[k] : k \in 1 .. Len(ConfigIds)}) \ {{}} }

\* The state before the divisor loop, the generator and the row builder
\* having run: validNumbers is what STEP 1 left, basePuzzle what STEP 2
\* built from it.
InitConfig ==
  /\ validNumbers \in ConfigValidNumbers
  /\ basePuzzle = BasePuzzleOf(validNumbers)
  /\ rowOrder = CodeRowOrder
  /\ pcMain = "loop" /\ gcdPos = 1 /\ found = 0
  /\ hardware = 0 /\ numThreads = U32(0) /\ skipDigit = Zero /\ threads = <<>>
  /\ pcGen = "idle" /\ joinPos = 0 /\ shard = [c \in ShardIds |-> NoShard]
  /\ validNumbersMutex = NoOwner
  /\ SolverIdle /\ FilterIdle

SpecConfig == InitConfig /\ [][Next]_vars

\* C12: on the lists of the row builder (every string holds the digit 0,
\* every candidate of row index 3 has 0 at column index 2) the tie-break
\* is true at every terminal state of solveFixed, and when solveFixed(0)
\* has returned allSolutions holds, once each, exactly the complete
\* assignments that satisfy column and box uniqueness.
C12_TieBreakNeverRejects ==
  /\ \A r \in Rows : \A i \in 1 .. Len(basePuzzle[r]) :
       \E c \in Cols : basePuzzle[r][i][c + 1] = CharOf(0)
  /\ \A i \in 1 .. Len(basePuzzle[3]) : basePuzzle[3][i][2 + 1] = CharOf(0)
  /\ (pcMain = "solve" /\ stack # <<>> /\ Top.pos = GridSize) =>
       hasZeroInFirstColumns(solution)
  /\ SolverReturned =>
       /\ NoDuplicates(allSolutions)
       /\ SeqToSet(allSolutions) =
            { ChoiceGrid(candidates, f) : f \in ConsistentChoices(candidates, GridSize) }

\* solveFixed(0) has returned with two complete assignments, both accepted,
\* the second after candidates were rejected.
C12_Witness ==
  /\ SolverReturned
  /\ Len(allSolutions) >= 2
  /\ candidateTries > 2 * GridSize
  /\ \A i \in 1 .. Len(allSolutions) : allSolutions[i][3][2] = 0

====
